---- MODULE Spec2Model ----
(***************************************************************************)
(* Model of the Sweep class of ta/sweep/sweep_parser.py: a set of named,  *)
(* equal-length traces with positional aliases, cached ranges, optional    *)
(* (description, unit) metadata and one mutator, change_unit.              *)
(*                                                                         *)
(* A Python dict is modelled as a sequence of [k, v] pairs in insertion    *)
(* order; an optional argument is <<>> for None and <<a>> for the value a. *)
(* Trace values are integers (numpy integer arrays).                       *)
(***************************************************************************)
EXTENDS Integers, Sequences, FiniteSets, TLC

VARIABLES state, args, _traces, _attrs, _aliases, _ranges, _len, ret, nops

vars == <<state, args, _traces, _attrs, _aliases, _ranges, _len, ret, nops>>

sweep == <<_traces, _attrs, _aliases, _ranges, _len>>

(***************************************************************************)
(* Bounds of the model.                                                    *)
(***************************************************************************)
\* most traces handed to the constructor
MaxTraces == 3
\* most elements of one trace handed to the constructor
MaxLen == 2
\* most change_unit calls made on one Sweep
MaxOps == 2

(***************************************************************************)
(* Input sets.                                                             *)
(***************************************************************************)
\* trace names; "x" is also an alias name
Names == {"wl", "p1", "x"}
\* arguments of the lookups: the trace names, the aliases, and "y2", which
\* is neither for any Sweep of at most three traces
Cols == Names \cup {"x", "y", "y0", "y1", "y2"}
\* trace elements handed to the constructor
Vals == {1, 2}
\* coefficients: the identity, and one that scales and flips the sign
Coeffs == {1, -2}
None == <<>>
Some(a) == <<a>>
UnitArgs == {None, Some(""), Some("mW")}
DescArgs == {None, Some(""), Some("Optical")}
InitAttr == <<"Power", "W">>

\* Python truth value of an optional string: None and "" are false
Truthy(opt) == opt # None /\ opt[1] # ""

(***************************************************************************)
(* dict helpers                                                            *)
(***************************************************************************)
Keys(d) == [i \in DOMAIN d |-> d[i].k]
KeySet(d) == {d[i].k : i \in DOMAIN d}
Has(d, key) == key \in KeySet(d)
Get(d, key) == d[CHOOSE i \in DOMAIN d : d[i].k = key].v
\* d[key] = val: an existing key keeps its place, a new key goes last
Put(d, key, val) ==
    IF Has(d, key)
    THEN [i \in DOMAIN d |-> IF d[i].k = key THEN [k |-> key, v |-> val] ELSE d[i]]
    ELSE Append(d, [k |-> key, v |-> val])

RECURSIVE Update(_, _)
\* d.update(e): the items of e assigned in order
Update(d, e) ==
    IF e = <<>> THEN d ELSE Update(Put(d, e[1].k, e[1].v), Tail(e))

\* an inversion in which the first key of a value is kept
RECURSIVE Reversed_firstWins(_, _)
Reversed_firstWins(acc, d) ==
    IF d = <<>> THEN acc
    ELSE Reversed_firstWins(IF Has(acc, d[1].v) THEN acc ELSE Put(acc, d[1].v, d[1].k),
                            Tail(d))

\* dict(map(reversed, d.items())): value -> key, a later item overwriting
RECURSIVE Reversed(_, _)
Reversed(acc, d) ==
    IF d = <<>> THEN acc ELSE Reversed(Put(acc, d[1].v, d[1].k), Tail(d))

\* np.min / np.max of a non-empty array
SeqMin(s) == CHOOSE m \in {s[i] : i \in DOMAIN s} : \A i \in DOMAIN s : m <= s[i]
SeqMax(s) == CHOOSE m \in {s[i] : i \in DOMAIN s} : \A i \in DOMAIN s : m >= s[i]

(***************************************************************************)
(* Outcomes.                                                               *)
(***************************************************************************)
Ok == "ok"
TypeErrorNotDict == "TypeError: 'traces' must be a dict"
ValueErrorFewTraces == "ValueError: more than 1 trace"
ValueErrorKeys == "ValueError: keys of 'traces' and 'attrs' must match"
ValueErrorZeroSize == "ValueError: zero-size array to reduction operation"
ValueErrorLength == "ValueError: trace does not have the same length"
ValueErrorUnit == "ValueError: 'unit' must be defined"
KeyErrorTrace == "KeyError: the trace does not exist"
IndexErrorBounds == "IndexError: index out of bounds"

(***************************************************************************)
(* Sweep.get_trace_col and Sweep.__getitem__ as functions of the two       *)
(* dicts they read. Each yields err and val, the trace name resolved or,   *)
(* for a KeyError, the name the error reports; __getitem__ also yields the *)
(* values of the trace.                                                    *)
(***************************************************************************)
\* a lookup that tries the trace names before the aliases
TraceCol_namesFirst(aliases, traces, col) ==
    IF Has(traces, col) THEN [err |-> Ok, val |-> col]
    ELSE IF Has(aliases, col) THEN [err |-> Ok, val |-> Get(aliases, col)]
    ELSE [err |-> KeyErrorTrace, val |-> col]

TraceCol(aliases, traces, col) ==
    IF Has(aliases, col) THEN [err |-> Ok, val |-> Get(aliases, col)]
    ELSE IF Has(traces, col) THEN [err |-> Ok, val |-> col]
    ELSE [err |-> KeyErrorTrace, val |-> col]

GetItem(aliases, traces, item) ==
    LET c == TraceCol(aliases, traces, item)
    IN  IF c.err = Ok
        THEN [err |-> Ok, val |-> c.val, values |-> Get(traces, c.val)]
        ELSE [err |-> c.err, val |-> c.val, values |-> <<>>]

(***************************************************************************)
(* Sweep.__init__                                                          *)
(***************************************************************************)
\* "if attrs:" is false for None and for an empty dict
AttrsGiven(attrs) == attrs # None /\ attrs[1] # <<>>

\* a comparison that only looks for attrs keys that are not traces
KeysDiffer_extraOnly(attrs, traces) == ~(KeySet(attrs) \subseteq KeySet(traces))

\* attrs.keys() != traces.keys(): dict key views compare as sets
KeysDiffer(attrs, traces) == KeySet(attrs) # KeySet(traces)

\* aliases whose y-index counts from 1
InitAliases_fromOne(traces) ==
    LET t_keys == Keys(traces)
    IN  Update(<<[k |-> "x", v |-> t_keys[1]], [k |-> "y", v |-> t_keys[2]]>>,
               [ii \in 1..(Len(t_keys) - 1) |->
                   [k |-> "y" \o ToString(ii), v |-> t_keys[ii + 1]]])

\* self._aliases: x, y, then y0, y1, ... over the traces after the first
InitAliases(traces) ==
    LET t_keys == Keys(traces)
    IN  Update(<<[k |-> "x", v |-> t_keys[1]], [k |-> "y", v |-> t_keys[2]]>>,
               [ii \in 1..(Len(t_keys) - 1) |->
                   [k |-> "y" \o ToString(ii - 1), v |-> t_keys[ii + 1]]])

\* one pass of the loop over self._traces.items(): np.min raises on an empty
\* array before the length is compared
TraceErr(v, len) ==
    IF Len(v) = 0 THEN ValueErrorZeroSize
    ELSE IF Len(v) # len THEN ValueErrorLength
    ELSE Ok

\* index of the first trace on which the loop raises, 0 if it completes
FirstBad(traces, len) ==
    LET bad == {i \in DOMAIN traces : TraceErr(traces[i].v, len) # Ok}
    IN  IF bad = {} THEN 0 ELSE CHOOSE i \in bad : \A j \in bad : i <= j

InitRanges(traces) ==
    [i \in DOMAIN traces |->
        [k |-> traces[i].k, v |-> <<SeqMin(traces[i].v), SeqMax(traces[i].v)>>]]

\* the outcome of Sweep(traces, attrs): err, the trace an error names, and
\* the fields of the object when there is one
NoSweep(err, name) ==
    [err |-> err, name |-> name, traces |-> <<>>, attrs |-> <<>>,
     aliases |-> <<>>, ranges |-> <<>>, len |-> 0]

Construct(isdict, traces, attrs) ==
    IF ~isdict THEN NoSweep(TypeErrorNotDict, "")
    ELSE IF Len(traces) < 2 THEN NoSweep(ValueErrorFewTraces, "")
    ELSE IF AttrsGiven(attrs) /\ KeysDiffer(attrs[1], traces)
    THEN NoSweep(ValueErrorKeys, "")
    ELSE
      LET aliases == InitAliases(traces)
          len == Len(GetItem(aliases, traces, "x").values)
          bad == FirstBad(traces, len)
      IN  IF bad # 0
          THEN NoSweep(TraceErr(traces[bad].v, len), traces[bad].k)
          ELSE [err |-> Ok, name |-> "", traces |-> traces,
                attrs |-> IF AttrsGiven(attrs) THEN attrs[1] ELSE <<>>,
                aliases |-> aliases, ranges |-> InitRanges(traces), len |-> len]

(***************************************************************************)
(* Constructor inputs.                                                     *)
(***************************************************************************)
SeqsUpTo(S, n) == UNION {[1..m -> S] : m \in 0..n}
Injective(s) == \A i, j \in DOMAIN s : s[i] = s[j] => i = j
\* the key orders of a dict of at most MaxTraces traces
KeyOrders == {s \in SeqsUpTo(Names, MaxTraces) : Injective(s)}
ValSeqs == SeqsUpTo(Vals, MaxLen)
\* a key order for every subset of the names
OrderOf(S) == CHOOSE s \in [1..Cardinality(S) -> S] : Injective(s)
\* attrs: None, or a dict over any set of names
AttrsArgs ==
    {None} \cup
    {Some([i \in DOMAIN OrderOf(S) |-> [k |-> OrderOf(S)[i], v |-> InitAttr]]) :
        S \in SUBSET Names}

NoArgs == [isdict |-> TRUE, traces |-> <<>>, attrs |-> None]
\* the last call: its name, its arguments (col, the name looked up; coeff,
\* unit and desc of change_unit; flag, the use_generic_names of
\* get_axis_labels) and its outcome: err; val, the trace name returned or
\* resolved or, for a KeyError, the name the error reports; values, the array
\* __getitem__ returns; labels, the dict get_axis_labels returns
NoRet ==
    [op |-> "", col |-> "", coeff |-> 0, unit |-> None, desc |-> None,
     flag |-> FALSE, err |-> Ok, val |-> "", values |-> <<>>, labels |-> <<>>]

Init ==
    /\ state = "new"
    /\ args = NoArgs
    /\ _traces = <<>>
    /\ _attrs = <<>>
    /\ _aliases = <<>>
    /\ _ranges = <<>>
    /\ _len = 0
    /\ ret = NoRet
    /\ nops = 0

\* Sweep(traces, attrs): the object exists only if __init__ returns
New(isdict, traces, attrs) ==
    LET r == Construct(isdict, traces, attrs)
    IN  /\ state = "new"
        /\ state' = IF r.err = Ok THEN "live" ELSE "failed"
        /\ args' = [isdict |-> isdict, traces |-> traces, attrs |-> attrs]
        /\ _traces' = r.traces
        /\ _attrs' = r.attrs
        /\ _aliases' = r.aliases
        /\ _ranges' = r.ranges
        /\ _len' = r.len
        /\ ret' = [NoRet EXCEPT !.op = "__init__", !.col = r.name, !.err = r.err]
        /\ nops' = 0

\* the constructor called with a dict of any traces and any attrs
NewAny ==
    /\ state = "new"
    /\ \E ks \in KeyOrders, attrs \in AttrsArgs :
          \E vs \in [DOMAIN ks -> ValSeqs] :
              New(TRUE, [i \in DOMAIN ks |-> [k |-> ks[i], v |-> vs[i]]], attrs)

\* the constructor called with something that is not a dict
NewNotDict == New(FALSE, <<>>, None)

NextInit == NewAny \/ NewNotDict

SpecInit == Init /\ [][NextInit]_vars

(***************************************************************************)
(* The read-only properties and __len__, as functions of the state.        *)
(***************************************************************************)
attrs == _attrs
ranges == _ranges
x_col == Get(_aliases, "x")
y_cols == Tail(Keys(_traces))
__len__ == _len

(***************************************************************************)
(* Sweep.get_trace_col and Sweep.__getitem__                               *)
(***************************************************************************)
get_trace_col(col) ==
    LET r == TraceCol(_aliases, _traces, col)
    IN  /\ ret' = [NoRet EXCEPT !.op = "get_trace_col", !.col = col,
                                !.err = r.err, !.val = r.val]
        /\ UNCHANGED <<state, args, sweep, nops>>

__getitem__(item) ==
    LET r == GetItem(_aliases, _traces, item)
    IN  /\ ret' = [NoRet EXCEPT !.op = "__getitem__", !.col = item,
                                !.err = r.err, !.val = r.val,
                                !.values = r.values]
        /\ UNCHANGED <<state, args, sweep, nops>>

(***************************************************************************)
(* Sweep.get_axis_labels                                                   *)
(***************************************************************************)
\* str() of a numpy integer
Str(n) == ToString(n)
\* f"{a} ({b})" of two strings
Fmt(a, b) == a \o " (" \o b \o ")"

\* the loop over self._traces.items(): v is the trace's array, the label is
\* built from its first two elements
RECURSIVE LabelsLoop(_, _, _, _)
LabelsLoop(labels, items, keys, use_generic_names) ==
    IF items = <<>> THEN [err |-> Ok, val |-> labels]
    ELSE LET k == items[1].k
             v == items[1].v
         IN  IF use_generic_names /\ ~Has(keys, k)
             THEN [err |-> KeyErrorTrace, val |-> <<>>]
             ELSE IF Len(v) < 2
             THEN [err |-> IndexErrorBounds, val |-> <<>>]
             ELSE LabelsLoop(
                    Put(labels, IF use_generic_names THEN Get(keys, k) ELSE k,
                        Fmt(Str(v[1]), Str(v[2]))),
                    Tail(items), keys, use_generic_names)

AxisLabels(aliases, traces, use_generic_names) ==
    LabelsLoop(<<>>, traces,
               IF use_generic_names THEN Reversed(<<>>, aliases) ELSE <<>>,
               use_generic_names)

get_axis_labels(use_generic_names) ==
    LET r == AxisLabels(_aliases, _traces, use_generic_names)
    IN  /\ ret' = [NoRet EXCEPT !.op = "get_axis_labels",
                                !.flag = use_generic_names,
                                !.err = r.err, !.labels = r.val]
        /\ UNCHANGED <<state, args, sweep, nops>>

(***************************************************************************)
(* Sweep.change_unit                                                       *)
(***************************************************************************)
\* a product that loses the last element of the array
Scale_dropLast(coeff, v) == [i \in 1..(Len(v) - 1) |-> coeff * v[i]]

\* coeff * array
Scale(coeff, v) == [i \in DOMAIN v |-> coeff * v[i]]

\* "if not unit": None and "" both count as missing
UnitMissing(unit) == ~Truthy(unit)

\* an attrs entry that always keeps the description it had
NewAttr_keepDesc(old, unit, desc) == <<old[1], unit[1]>>

\* the attrs entry written for the trace
NewAttr(old, unit, desc) ==
    IF Truthy(desc) THEN <<desc[1], unit[1]>> ELSE <<old[1], unit[1]>>

\* a change_unit that multiplies every trace
CuTraces_all(aliases, traces, col, coeff) ==
    IF TraceCol(aliases, traces, col).err # Ok THEN traces
    ELSE [i \in DOMAIN traces |->
            [k |-> traces[i].k, v |-> Scale(coeff, traces[i].v)]]

\* the trace change_unit resolves and multiplies, if col resolves: the
\* multiplication comes right after the lookup, before unit is looked at
CuTraces(aliases, traces, col, coeff) ==
    LET c == TraceCol(aliases, traces, col)
    IN  IF c.err # Ok THEN traces
        ELSE Put(traces, c.val, Scale(coeff, Get(traces, c.val)))

\* a change_unit that never raises for a missing unit
CuErr_noUnitCheck(aliases, traces, at, col, unit) ==
    TraceCol(aliases, traces, col).err

\* what change_unit raises: the KeyError of the lookup, or, on a Sweep with
\* attrs, the ValueError for a missing unit
CuErr(aliases, traces, at, col, unit) ==
    LET c == TraceCol(aliases, traces, col)
    IN  IF c.err # Ok THEN c.err
        ELSE IF at # <<>> /\ UnitMissing(unit) THEN ValueErrorUnit
        ELSE Ok

\* attrs after change_unit: written only if the call gets past both raises
\* and the Sweep has attrs
CuAttrs(aliases, traces, at, col, unit, desc) ==
    LET c == TraceCol(aliases, traces, col)
    IN  IF c.err # Ok \/ at = <<>> \/ UnitMissing(unit) THEN at
        ELSE Put(at, c.val, NewAttr(Get(at, c.val), unit, desc))

change_unit(col, coeff, unit, desc) ==
    /\ nops' = nops + 1
    /\ ret' = [NoRet EXCEPT !.op = "change_unit", !.col = col, !.coeff = coeff,
                            !.unit = unit, !.desc = desc,
                            !.err = CuErr(_aliases, _traces, attrs, col, unit),
                            !.val = TraceCol(_aliases, _traces, col).val]
    /\ _traces' = CuTraces(_aliases, _traces, col, coeff)
    /\ _attrs' = CuAttrs(_aliases, _traces, attrs, col, unit, desc)
    /\ UNCHANGED <<state, args, _aliases, _ranges, _len>>

(***************************************************************************)
(* The life of one Sweep: construction, then any calls.                    *)
(***************************************************************************)
\* attrs with the keys of the traces
AttrsFor(ks) == [i \in DOMAIN ks |-> [k |-> ks[i], v |-> InitAttr]]

\* n raw values i, i+1, ...: different in every trace, distinct in a trace
Ramp(i, n) == [j \in 1..n |-> i + j - 1]

\* the constructor called with a wavelength trace first and n values in
\* every trace, with or without matching attrs
NewSweep ==
    /\ state = "new"
    /\ \E ks \in {o \in KeyOrders : o = <<>> \/ o[1] = "wl"}, n \in 0..MaxLen,
          at \in BOOLEAN :
          New(TRUE, [i \in DOMAIN ks |-> [k |-> ks[i], v |-> Ramp(i, n)]],
              IF at THEN Some(AttrsFor(ks)) ELSE None)

Resolve == state = "live" /\ \E col \in Cols : get_trace_col(col)

Read == state = "live" /\ \E item \in Cols : __getitem__(item)

Labels == state = "live" /\ \E g \in BOOLEAN : get_axis_labels(g)

Rescale ==
    /\ state = "live"
    /\ nops < MaxOps
    /\ \E col \in Cols, coeff \in Coeffs, unit \in UnitArgs, desc \in DescArgs :
          change_unit(col, coeff, unit, desc)

Next == NewSweep \/ Resolve \/ Read \/ Labels \/ Rescale

Spec == Init /\ [][Next]_vars

(***************************************************************************)
(* Properties of construction, checked under SpecInit.                     *)
(***************************************************************************)
Constructed == ret.op = "__init__"
Rejected(err) == ret.err = err /\ state = "failed" /\ sweep = <<<<>>, <<>>, <<>>, <<>>, 0>>

\* traces the constructor accepts: two or more, of one non-zero length
WellFormed(traces) ==
    /\ Len(traces) >= 2
    /\ \A i \in DOMAIN traces : Len(traces[i].v) = Len(traces[1].v)
    /\ Len(traces[1].v) >= 1

\* C3 as stated, for traces the constructor accepts: whenever attrs is
\* supplied (even with no keys) and its key set differs from that of traces,
\* construction fails with the metadata-mismatch ValueError and there is no
\* Sweep.
C3_AnyDifferingAttrsRejected ==
    (/\ Constructed
     /\ args.isdict
     /\ WellFormed(args.traces)
     /\ args.attrs # None
     /\ KeySet(args.attrs[1]) # KeySet(args.traces))
    => Rejected(ValueErrorKeys)

\* C3 amended: for a dict of at least two traces and an attrs mapping with at
\* least one key, a key set different from that of traces makes construction
\* fail with the metadata-mismatch ValueError, and there is no Sweep.
C3_NonEmptyDifferingAttrsRejected ==
    (/\ Constructed
     /\ args.isdict
     /\ Len(args.traces) >= 2
     /\ args.attrs # None
     /\ args.attrs[1] # <<>>
     /\ KeySet(args.attrs[1]) # KeySet(args.traces))
    => Rejected(ValueErrorKeys)

\* a construction rejected for an attrs mapping that lacks one of the traces
C3_Witness ==
    /\ Constructed
    /\ Len(args.traces) >= 2
    /\ args.attrs # None
    /\ args.attrs[1] # <<>>
    /\ KeySet(args.attrs[1]) \subseteq KeySet(args.traces)
    /\ KeySet(args.attrs[1]) # KeySet(args.traces)
    /\ Rejected(ValueErrorKeys)

\* C4 as stated: for two or more traces, attrs absent or matching,
\* construction fails with the length-mismatch ValueError if some trace's
\* length differs from the first's, and otherwise succeeds with length()
\* equal to the common length, for every common length including 0.
C4_LengthUniformity ==
    (/\ Constructed
     /\ args.isdict
     /\ Len(args.traces) >= 2
     /\ (args.attrs = None \/ KeySet(args.attrs[1]) = KeySet(args.traces)))
    => IF \E i \in DOMAIN args.traces : Len(args.traces[i].v) # Len(args.traces[1].v)
       THEN Rejected(ValueErrorLength)
       ELSE state = "live" /\ ret.err = Ok /\ __len__ = Len(args.traces[1].v)

(***************************************************************************)
(* Properties of a live Sweep, checked under Spec.                         *)
(***************************************************************************)
Live == state = "live"
\* the step is a call of change_unit
Rescaled == nops' = nops + 1
Known(col) == Has(_aliases, col) \/ Has(_traces, col)

\* C1 as stated: a change_unit call that raises leaves the trace values,
\* attrs, ranges, aliases and length as they were before the call.
C1_FailedRescaleChangesNothing ==
    [][(Rescaled /\ ret'.err # Ok) => UNCHANGED sweep]_vars

\* C2 as stated: in every state of a live Sweep, ranges[k] is the (min, max)
\* of the current values of trace k, for every trace k.
C2_RangesCurrent ==
    Live => \A i \in DOMAIN _traces :
                /\ Has(ranges, _traces[i].k)
                /\ Get(ranges, _traces[i].k)
                     = <<SeqMin(_traces[i].v), SeqMax(_traces[i].v)>>

\* C5 as stated: get_axis_labels on a Sweep with empty attrs fails, for
\* either value of use_generic_names.
C5_LabelsNeedAttrs ==
    (ret.op = "get_axis_labels" /\ attrs = <<>>) => ret.err # Ok

\* C6 as stated, for traces of two or more elements: on a Sweep with attrs,
\* get_axis_labels returns for every trace the label "{description} ({unit})"
\* of the trace's current attrs entry.
C6_LabelsFromAttrs ==
    (ret.op = "get_axis_labels" /\ attrs # <<>> /\ __len__ >= 2)
    => /\ ret.err = Ok
       /\ Len(ret.labels) = Len(_traces)
       /\ \A i \in DOMAIN _traces :
              ret.labels[i].v = Fmt(Get(attrs, _traces[i].k)[1], Get(attrs, _traces[i].k)[2])

\* C7: when get_axis_labels returns, its keys are, in trace order, the
\* canonical trace names if use_generic_names is false, and "x" for the first
\* trace and "y{i}" (from 0) for the i-th dependent trace if it is true: one
\* key per trace, never "y".
C7_LabelKeys ==
    (ret.op = "get_axis_labels" /\ ret.err = Ok)
    => /\ Len(ret.labels) = Len(_traces)
       /\ \A i \in DOMAIN _traces :
              ret.labels[i].k = IF ~ret.flag THEN _traces[i].k
                             ELSE IF i = 1 THEN "x"
                             ELSE "y" \o ToString(i - 2)

\* generic labels returned for a Sweep of three traces
C7_Witness ==
    /\ ret.op = "get_axis_labels"
    /\ ret.flag
    /\ ret.err = Ok
    /\ Len(_traces) = 3
    /\ Keys(ret.labels) = <<"x", "y0", "y1">>

\* C8: a live Sweep built from traces t0, ..., tn has, in every state, the
\* alias map {x -> t0, y -> t1, y0 -> t1, ..., y(n-1) -> tn}; every alias
\* target is a trace key, and the trace keys are those given at construction,
\* in their order.
C8_AliasesFixed ==
    Live =>
      LET t == Keys(args.traces)
          n == Len(t) - 1
      IN  /\ KeySet(_aliases) = {"x", "y"} \cup {"y" \o ToString(i) : i \in 0..(n - 1)}
          /\ Len(_aliases) = n + 2
          /\ Get(_aliases, "x") = t[1]
          /\ Get(_aliases, "y") = t[2]
          /\ \A i \in 0..(n - 1) : Get(_aliases, "y" \o ToString(i)) = t[i + 2]
          /\ \A a \in DOMAIN _aliases : Has(_traces, _aliases[a].v)
          /\ Keys(_traces) = t
          /\ x_col = t[1]
          /\ y_cols = Tail(t)

\* a Sweep of three traces after a change_unit call that went through
C8_Witness ==
    /\ Live
    /\ Len(_traces) = 3
    /\ ret.op = "change_unit"
    /\ ret.err = Ok
    /\ nops >= 2
    /\ Get(_aliases, "y1") = Keys(args.traces)[3]

\* C9: get_trace_col returns the alias target for a known alias, even if a
\* trace has that name; else the name itself for a trace name; else it
\* raises KeyError. __getitem__ and change_unit raise the same KeyError for a
\* name that is neither.
C9_LookupOrder ==
    /\ ret.op = "get_trace_col" =>
          IF Has(_aliases, ret.col)
          THEN ret.err = Ok /\ ret.val = Get(_aliases, ret.col)
          ELSE IF Has(_traces, ret.col)
          THEN ret.err = Ok /\ ret.val = ret.col
          ELSE ret.err = KeyErrorTrace
    /\ (ret.op \in {"__getitem__", "change_unit"} /\ ~Known(ret.col))
          => ret.err = KeyErrorTrace

\* "x" looked up in a Sweep that has a trace "x" which is not its first
C9_Witness ==
    /\ ret.op = "get_trace_col"
    /\ ret.col = "x"
    /\ Has(_traces, "x")
    /\ ret.err = Ok
    /\ ret.val = "wl"

\* C10: on a Sweep with attrs, change_unit called on a resolvable name
\* without unit raises the missing-unit ValueError, for every coefficient and
\* with or without a description.
C10_MissingUnit ==
    [][(Rescaled /\ attrs # <<>> /\ Known(ret'.col) /\ ret'.unit = None)
         => ret'.err = ValueErrorUnit]_vars

\* a change_unit call on a Sweep with attrs that raised for the missing unit
C10_Witness ==
    /\ Live
    /\ attrs # <<>>
    /\ ret.op = "change_unit"
    /\ ret.unit = None
    /\ ret.desc # None
    /\ ret.err = ValueErrorUnit

\* a change_unit call that returned
RescaledOk == Rescaled /\ ret'.err = Ok

\* the attrs entries of the traces change_unit did not resolve stay as they
\* were, and attrs keeps its keys in their order
OtherAttrsKept ==
    /\ Keys(attrs') = Keys(attrs)
    /\ \A i \in DOMAIN attrs : attrs[i].k # ret'.val => attrs'[i].v = attrs[i].v

\* C11 as stated: after a change_unit that returned on a Sweep with attrs, the
\* entry of the resolved trace is (desc, unit) whenever a desc argument was
\* passed and (previous description, unit) when none was; the other entries
\* are unchanged; on a Sweep with empty attrs, attrs stays empty.
C11_GivenDescReplaces ==
    [][RescaledOk =>
         IF attrs = <<>> THEN attrs' = <<>>
         ELSE /\ OtherAttrsKept
              /\ Get(attrs', ret'.val) =
                   IF ret'.desc # None
                   THEN <<ret'.desc[1], ret'.unit[1]>>
                   ELSE <<Get(attrs, ret'.val)[1], ret'.unit[1]>>]_vars

\* C11, amended: after a change_unit that returned on a Sweep with attrs, the
\* entry of the resolved trace is (desc, unit) if desc was passed and is not
\* the empty string, and (previous description, unit) if desc was omitted or
\* is the empty string; the other entries are unchanged; on a Sweep with
\* empty attrs, attrs stays empty.
C11_NonEmptyDescReplaces ==
    [][RescaledOk =>
         IF attrs = <<>> THEN attrs' = <<>>
         ELSE /\ OtherAttrsKept
              /\ Get(attrs', ret'.val) =
                   IF ret'.desc # None /\ ret'.desc # Some("")
                   THEN <<ret'.desc[1], ret'.unit[1]>>
                   ELSE <<Get(attrs, ret'.val)[1], ret'.unit[1]>>]_vars

\* a second change_unit, without desc, returned on a Sweep whose first
\* change_unit had replaced the description: the entry keeps the replaced
\* description and the other trace keeps its first entry
C11_Witness ==
    /\ Live
    /\ nops = 2
    /\ ret.op = "change_unit"
    /\ ret.err = Ok
    /\ ret.desc = None
    /\ attrs # <<>>
    /\ Get(attrs, ret.val) = <<"Optical", "mW">>
    /\ \E i \in DOMAIN attrs : attrs[i].v = InitAttr

\* C12: in every state after a construction that returned, whatever
\* change_unit calls followed (returned or raised), __len__ is the length the
\* x-trace had at construction and is the number of elements of every trace.
C12_LengthKept ==
    Live =>
      /\ __len__ = Len(args.traces[1].v)
      /\ \A i \in DOMAIN _traces : Len(_traces[i].v) = __len__

\* two change_unit calls on a Sweep of length MaxLen: the first returned and
\* wrote an attrs entry, the second raised for the missing unit after it had
\* multiplied the trace
C12_Witness ==
    /\ Live
    /\ nops = 2
    /\ ret.op = "change_unit"
    /\ ret.err = ValueErrorUnit
    /\ attrs # AttrsFor(Keys(_traces))
    /\ \E i \in DOMAIN _traces : _traces[i].v # args.traces[i].v
    /\ __len__ = MaxLen

\* C13: after a change_unit that returned, called with the name of a trace
\* or with any alias of it, the values of the resolved trace are the previous
\* values each multiplied by coeff, in the same order and number, and the
\* values of every other trace are unchanged.
C13_SingleTraceScaled ==
    [][RescaledOk =>
         /\ Keys(_traces') = Keys(_traces)
         /\ \A i \in DOMAIN _traces :
               IF _traces[i].k = ret'.val
               THEN /\ Len(_traces'[i].v) = Len(_traces[i].v)
                    /\ \A j \in DOMAIN _traces[i].v :
                          _traces'[i].v[j] = ret'.coeff * _traces[i].v[j]
               ELSE _traces'[i].v = _traces[i].v
         /\ ret'.val = IF Has(_aliases, ret'.col)
                       THEN Get(_aliases, ret'.col) ELSE ret'.col]_vars

\* a change_unit by -2 that returned, called with the alias "y1" of the last
\* of three traces of MaxLen values: that trace is no longer what was
\* constructed and the first two traces still are
C13_Witness ==
    /\ Live
    /\ nops = 1
    /\ ret.op = "change_unit"
    /\ ret.col = "y1"
    /\ ret.coeff = -2
    /\ ret.err = Ok
    /\ __len__ = MaxLen
    /\ Len(_traces) = 3
    /\ _traces[3].k = ret.val
    /\ _traces[3].v # args.traces[3].v
    /\ _traces[1] = args.traces[1]
    /\ _traces[2] = args.traces[2]

====
